---------------------------- MODULE Spec2Model ----------------------------
(***************************************************************************)
(* Model of sat_sudoku.py: the reduction of a 9 x 9 sudoku board to a CNF  *)
(* formula (get_sudoku_clauses, get_single_clauses), the call of the       *)
(* external SAT solver, and the decoding of its answer (get_cell_solution, *)
(* solve_sudoku).                                                          *)
(***************************************************************************)
EXTENDS Integers, Sequences, FiniteSets

VARIABLES
    sudoku_clauses,   \* the clause list built by get_sudoku_clauses / passed to solve_sudoku
    sudoku_solution,  \* solve_sudoku: the integers of set(pycosat.solve(...))
    pc,               \* position in the code
    single_clauses,   \* solve_sudoku: result of get_single_clauses
    outcome,          \* what pycosat.solve returned: "none" (not called), "SAT", "UNSAT"
    input_grid,       \* the grid as it was passed to solve_sudoku (history)
    sudoku_grid,      \* the grid object, overwritten in place by solve_sudoku
    calls,            \* number of solve_sudoku calls on this clause list
    family_clauses,   \* the local list of the family function being run
    row, column, digit, \* loop variables / arguments
    cell_id,          \* get_cell_value: the returned id
    wanted            \* an id in 1..NUM_VARIABLES looked for among the ids

vars == <<sudoku_clauses, sudoku_solution, pc, single_clauses, outcome,
          input_grid, sudoku_grid, calls, family_clauses, row, column, digit,
          cell_id, wanted>>

----------------------------------------------------------------------------
(* Module constants of sat_sudoku.py *)

NUM_CELLS == 81

SUDOKU_BOARD_BOUNDARIES == <<1, 4, 7>>

DIGITS == 9

NUM_VARIABLES == 729

----------------------------------------------------------------------------
(* Python list helpers *)

\* the concatenation of the lists in ss, as repeated list.extend / append builds it
RECURSIVE FlattenFrom(_, _)
FlattenFrom(ss, i) ==
    IF i > Len(ss) THEN <<>> ELSE ss[i] \o FlattenFrom(ss, i + 1)

Flatten(ss) == FlattenFrom(ss, 1)

----------------------------------------------------------------------------
(* The encoder *)

\* get_cell_value with column_id = DIGITS * column
get_cell_value_column_not_shifted(r, c, d) ==
    LET row_id == NUM_CELLS * (r - 1)
        column_id == DIGITS * c
    IN  row_id + column_id + d

get_cell_value(r, c, d) ==
    LET row_id == NUM_CELLS * (r - 1)
        column_id == DIGITS * (c - 1)
    IN  row_id + column_id + d

\* the clause appended by get_base_clauses for one cell (lines 74-76)
base_clause(r, c) == [d \in 1..DIGITS |-> get_cell_value(r, c, d)]

get_base_clauses ==
    Flatten([r \in 1..DIGITS |-> [c \in 1..DIGITS |-> base_clause(r, c)]])

\* the clauses appended by get_unique_digit_clauses for one cell (lines 101-105)
unique_digit_clauses_of_cell(r, c) ==
    Flatten([d \in 1..DIGITS |->
        [j \in 1..(DIGITS - d) |->
            LET next_digit == d + j
            IN  <<-get_cell_value(r, c, d), -get_cell_value(r, c, next_digit)>>]])

get_unique_digit_clauses ==
    Flatten(Flatten([r \in 1..DIGITS |->
        [c \in 1..DIGITS |-> unique_digit_clauses_of_cell(r, c)]]))

\* get_unique_subset_clause with the test index != n_index
get_unique_subset_clause_both_orders(board_subset) ==
    Flatten(Flatten([index \in 1..Len(board_subset) |->
        [n_index \in 1..Len(board_subset) |->
            IF index # n_index
            THEN LET first_tuple == board_subset[index]
                     n_tuple == board_subset[n_index]
                 IN  [d \in 1..DIGITS |->
                        <<-get_cell_value(first_tuple[1], first_tuple[2], d),
                          -get_cell_value(n_tuple[1], n_tuple[2], d)>>]
            ELSE <<>>]]))

\* get_unique_subset_clause with the test index <= n_index
get_unique_subset_clause_with_self(board_subset) ==
    Flatten(Flatten([index \in 1..Len(board_subset) |->
        [n_index \in 1..Len(board_subset) |->
            IF index <= n_index
            THEN LET first_tuple == board_subset[index]
                     n_tuple == board_subset[n_index]
                 IN  [d \in 1..DIGITS |->
                        <<-get_cell_value(first_tuple[1], first_tuple[2], d),
                          -get_cell_value(n_tuple[1], n_tuple[2], d)>>]
            ELSE <<>>]]))

get_unique_subset_clause(board_subset) ==
    Flatten(Flatten([index \in 1..Len(board_subset) |->
        [n_index \in 1..Len(board_subset) |->
            IF index < n_index
            THEN LET first_tuple == board_subset[index]
                     n_tuple == board_subset[n_index]
                 IN  [d \in 1..DIGITS |->
                        <<-get_cell_value(first_tuple[1], first_tuple[2], d),
                          -get_cell_value(n_tuple[1], n_tuple[2], d)>>]
            ELSE <<>>]]))

\* the board subsets handed to get_unique_subset_clause (lines 162, 179, 198)
row_subset(r) == [c \in 1..DIGITS |-> <<r, c>>]

\* the subset of get_column_digits_unique_clause with (row, column) tuples
column_subset_as_row(r) == [c \in 1..DIGITS |-> <<r, c>>]

column_subset(r) == [c \in 1..DIGITS |-> <<c, r>>]

sub_grid_subset(r, c) ==
    [j \in 1..9 |-> LET k == j - 1 IN <<r + (k % 3), c + (k \div 3)>>]

get_rows_digits_unique_clauses ==
    Flatten([r \in 1..DIGITS |-> get_unique_subset_clause(row_subset(r))])

get_column_digits_unique_clause ==
    Flatten([r \in 1..DIGITS |-> get_unique_subset_clause(column_subset(r))])

get_3x3_sub_grid_clauses ==
    Flatten(Flatten([i \in 1..Len(SUDOKU_BOARD_BOUNDARIES) |->
        [j \in 1..Len(SUDOKU_BOARD_BOUNDARIES) |->
            get_unique_subset_clause(
                sub_grid_subset(SUDOKU_BOARD_BOUNDARIES[i],
                                SUDOKU_BOARD_BOUNDARIES[j]))]]))

\* get_sudoku_clauses without the extend of line 216
get_sudoku_clauses_without_sub_grids ==
    get_base_clauses \o get_unique_digit_clauses
        \o get_rows_digits_unique_clauses
        \o get_column_digits_unique_clause

get_sudoku_clauses ==
    get_base_clauses \o get_unique_digit_clauses
        \o get_rows_digits_unique_clauses
        \o get_column_digits_unique_clause
        \o get_3x3_sub_grid_clauses

\* get_single_clauses with get_cell_value(column, row, cell_value)
get_single_clauses_transposed(grid) ==
    Flatten(Flatten([r \in 1..DIGITS |->
        [c \in 1..DIGITS |->
            LET cell_value == grid[r][c]
            IN  IF cell_value # 0
                THEN <<<<get_cell_value(c, r, cell_value)>>>>
                ELSE <<>>]]))

get_single_clauses(grid) ==
    Flatten(Flatten([r \in 1..DIGITS |->
        [c \in 1..DIGITS |->
            LET cell_value == grid[r][c]
            IN  IF cell_value # 0
                THEN <<<<get_cell_value(r, c, cell_value)>>>>
                ELSE <<>>]]))

----------------------------------------------------------------------------
(* The decoder *)

\* the loop of get_cell_solution from digit d on
RECURSIVE cell_solution_from(_, _, _, _)
cell_solution_from(solution, r, c, d) ==
    IF d > DIGITS THEN -1
    ELSE IF get_cell_value(r, c, d) \in solution THEN d
    ELSE cell_solution_from(solution, r, c, d + 1)

get_cell_solution(solution, r, c) == cell_solution_from(solution, r, c, 1)

----------------------------------------------------------------------------
(* The grids of main *)

sudoku_problem ==
    << <<0, 2, 0, 0, 0, 0, 0, 0, 0>>,
       <<0, 0, 0, 6, 0, 0, 0, 0, 3>>,
       <<0, 7, 4, 0, 8, 0, 0, 0, 0>>,
       <<0, 0, 0, 0, 0, 3, 0, 0, 2>>,
       <<0, 8, 0, 0, 4, 0, 0, 1, 0>>,
       <<6, 0, 0, 5, 0, 0, 0, 0, 0>>,
       <<0, 0, 0, 0, 1, 0, 7, 8, 0>>,
       <<5, 0, 0, 0, 0, 9, 0, 0, 0>>,
       <<0, 0, 0, 0, 0, 0, 0, 4, 0>> >>

expected_solution ==
    << <<1, 2, 6, 4, 3, 7, 9, 5, 8>>,
       <<8, 9, 5, 6, 2, 1, 4, 7, 3>>,
       <<3, 7, 4, 9, 8, 5, 1, 2, 6>>,
       <<4, 5, 7, 1, 9, 3, 8, 6, 2>>,
       <<9, 8, 3, 2, 4, 6, 5, 1, 7>>,
       <<6, 1, 2, 5, 7, 8, 3, 9, 4>>,
       <<2, 6, 9, 3, 1, 4, 7, 8, 5>>,
       <<5, 4, 8, 7, 6, 9, 2, 3, 1>>,
       <<7, 3, 1, 8, 5, 2, 6, 4, 9>> >>

----------------------------------------------------------------------------
(* Inputs: the grids solve_sudoku is called with *)

ZeroGrid == [r \in 1..9 |-> [c \in 1..9 |-> 0]]

SetCell(g, r, c, v) == [g EXCEPT ![r][c] = v]

Relabel(g, a, b) ==
    [r \in 1..9 |-> [c \in 1..9 |->
        IF g[r][c] = a THEN b ELSE IF g[r][c] = b THEN a ELSE g[r][c]]]

SwapRows(g, r1, r2) ==
    [r \in 1..9 |-> IF r = r1 THEN g[r2] ELSE IF r = r2 THEN g[r1] ELSE g[r]]

SwapColumns(g, c1, c2) ==
    [r \in 1..9 |-> [c \in 1..9 |->
        IF c = c1 THEN g[r][c2] ELSE IF c = c2 THEN g[r][c1] ELSE g[r][c]]]

SwapCells(g, p, q) ==
    [g EXCEPT ![p[1]][p[2]] = g[q[1]][q[2]], ![q[1]][q[2]] = g[p[1]][p[2]]]

\* the largest digit exchanged with another one to get a further completed grid
MaxRelabelDigit == 7

\* the columns of row 1 whose entry is edited, and the largest (invalid) entry
MaxEditColumn == 2

MaxEntry == 10

EditValues == {-1} \cup (0..2) \cup (10..MaxEntry)

\* completed grids made from the one of main by exchanging two digits, two rows
\* or two columns: valid when the rows / columns are in the same band
RelabelledGrids ==
    {Relabel(expected_solution, a, b) : a \in 1..MaxRelabelDigit, b \in 2..DIGITS}

RowSwappedGrids ==
    {SwapRows(expected_solution, r1, r2) : r1 \in 1..2, r2 \in 2..5}

ColumnSwappedGrids ==
    {SwapColumns(expected_solution, c1, c2) : c1 \in 1..2, c2 \in 2..5}

\* completed grids that break one rule each
CellSwappedGrids ==
    {SwapCells(expected_solution, <<1, 1>>, q) : q \in {<<2, 1>>, <<1, 2>>, <<2, 2>>, <<5, 5>>}}

EditedPuzzles ==
    {SetCell(g, 1, c, v) :
        g \in {ZeroGrid, sudoku_problem}, c \in 1..MaxEditColumn, v \in EditValues}

Puzzles ==
    {ZeroGrid, sudoku_problem, expected_solution}
        \cup EditedPuzzles \cup RelabelledGrids \cup RowSwappedGrids
        \cup CellSwappedGrids

----------------------------------------------------------------------------
(* The external solver, pycosat.solve: formula in, model or "UNSAT" out *)

\* the truth assignment in which exactly the variable of (r, c, g[r][c]) is
\* true for every cell: variable v stands for digit (v-1) % 9 + 1 in the
\* cell number (v-1) \div 9
GridAssignment(g) ==
    [v \in 1..NUM_VARIABLES |->
        g[((v - 1) \div 81) + 1][(((v - 1) % 81) \div 9) + 1] = ((v - 1) % 9) + 1]

Flip(a, v) == [a EXCEPT ![v] = ~a[v]]

\* the largest variable whose value is flipped in the assignment of main's grid
MaxFlipVariable == 9

\* the truth assignments the solver's answer is drawn from: those of completed
\* grids, valid or breaking one rule (rows only, columns only, boxes only,
\* several), and assignments that leave a cell without a digit or give it two
Candidates ==
    {GridAssignment(g) :
        g \in {expected_solution} \cup RelabelledGrids \cup RowSwappedGrids
                 \cup ColumnSwappedGrids \cup CellSwappedGrids}
      \cup {Flip(GridAssignment(expected_solution), v) : v \in 1..MaxFlipVariable}

LiteralTrue(a, l) == IF l > 0 THEN a[l] ELSE ~a[-l]

ClauseTrue(a, clause) == \E k \in DOMAIN clause : LiteralTrue(a, clause[k])

\* a satisfies every clause of formula (looked at from the last clause on)
Satisfies(a, formula) ==
    \A i \in DOMAIN formula : ClauseTrue(a, formula[Len(formula) + 1 - i])

\* the models of formula the solver's answer is drawn from
Models(formula) == {a \in Candidates : Satisfies(a, formula)}

\* the list pycosat returns for a model: v or -v for every variable
ModelLiterals(a) == {IF a[v] THEN v ELSE -v : v \in DOMAIN a}

UnitLiterals(formula) ==
    {formula[i][1] : i \in {j \in DOMAIN formula : Len(formula[j]) = 1}}

\* some clause has each of its literals contradicted by a unit clause: the
\* formula has no model. (Formulas without a model that are not refuted this
\* way get no answer here: the answers modelled are a subset of the solver's.)
Refuted(formula) ==
    LET units == UnitLiterals(formula)
    IN  \E i \in DOMAIN formula :
            \A k \in DOMAIN formula[i] : (0 - formula[i][k]) \in units

----------------------------------------------------------------------------
(* solve_sudoku, called as main calls it *)

Init ==
    /\ sudoku_clauses = get_sudoku_clauses
    /\ sudoku_solution = {}
    /\ pc = "main"
    /\ single_clauses = <<>>
    /\ outcome = "none"
    /\ input_grid = <<>>
    /\ sudoku_grid = <<>>
    /\ calls = 0
    /\ family_clauses = <<>>
    /\ row = 0 /\ column = 0 /\ digit = 0
    /\ cell_id = 0
    /\ wanted = 0

\* line 316: solve_sudoku(sudoku_problem, sudoku_clauses)
Call(grid) ==
    /\ pc = "main"
    /\ sudoku_grid' = grid
    /\ input_grid' = grid
    /\ calls' = calls + 1
    /\ pc' = "get_single_clauses"
    /\ UNCHANGED <<sudoku_clauses, sudoku_solution, single_clauses, outcome,
                   family_clauses, row, column, digit, cell_id, wanted>>

\* line 284
GetSingleClauses ==
    /\ pc = "get_single_clauses"
    /\ single_clauses' = get_single_clauses(sudoku_grid)
    /\ pc' = "extend"
    /\ UNCHANGED <<sudoku_clauses, sudoku_solution, outcome, input_grid,
                   sudoku_grid, calls, family_clauses, row, column, digit,
                   cell_id, wanted>>

\* line 285
ExtendClauses ==
    /\ pc = "extend"
    /\ sudoku_clauses' = sudoku_clauses \o single_clauses
    /\ pc' = "solve"
    /\ UNCHANGED <<sudoku_solution, single_clauses, outcome, input_grid,
                   sudoku_grid, calls, family_clauses, row, column, digit,
                   cell_id, wanted>>

\* line 287, pycosat.solve returns a model
SolveSat ==
    /\ pc = "solve"
    /\ \E a \in Models(sudoku_clauses) : sudoku_solution' = ModelLiterals(a)
    /\ outcome' = "SAT"
    /\ pc' = "decode"
    /\ UNCHANGED <<sudoku_clauses, single_clauses, input_grid, sudoku_grid,
                   calls, family_clauses, row, column, digit, cell_id, wanted>>

\* line 287, pycosat.solve returns the string "UNSAT": set("UNSAT") is a set
\* of five characters, none of them an integer
SolveUnsat ==
    /\ pc = "solve"
    /\ Refuted(sudoku_clauses) = TRUE
    /\ sudoku_solution' = {}
    /\ outcome' = "UNSAT"
    /\ pc' = "decode"
    /\ UNCHANGED <<sudoku_clauses, single_clauses, input_grid, sudoku_grid,
                   calls, family_clauses, row, column, digit, cell_id, wanted>>

\* lines 289-294: every cell is overwritten and the grid is returned
Decode ==
    /\ pc = "decode"
    /\ sudoku_grid' =
        [r \in 1..DIGITS |-> [c \in 1..DIGITS |->
            get_cell_solution(sudoku_solution, r, c)]]
    /\ pc' = "returned"
    /\ UNCHANGED <<sudoku_clauses, sudoku_solution, single_clauses, outcome,
                   input_grid, calls, family_clauses, row, column, digit,
                   cell_id, wanted>>

Next ==
    \/ \E grid \in Puzzles : Call(grid)
    \/ GetSingleClauses
    \/ ExtendClauses
    \/ SolveSat
    \/ SolveUnsat
    \/ Decode

Spec == Init /\ [][Next]_vars

----------------------------------------------------------------------------
(* A caller that uses the clause list for several puzzles *)

\* the number of solve_sudoku calls made with one clause list
MaxSolves == 2

\* the grids of the calls after the first
LaterPuzzles ==
    {ZeroGrid, sudoku_problem, expected_solution, SetCell(ZeroGrid, 1, 1, 2)}

\* solve_sudoku is called again with the list the last call was given
CallAgain(grid) ==
    /\ pc = "returned"
    /\ calls < MaxSolves
    /\ sudoku_grid' = grid
    /\ input_grid' = grid
    /\ calls' = calls + 1
    /\ sudoku_solution' = {}
    /\ single_clauses' = <<>>
    /\ outcome' = "none"
    /\ pc' = "get_single_clauses"
    /\ UNCHANGED <<sudoku_clauses, family_clauses, row, column, digit,
                   cell_id, wanted>>

NextReuse ==
    \/ Next
    \/ \E grid \in LaterPuzzles : CallAgain(grid)

SpecReuse == Init /\ [][NextReuse]_vars

----------------------------------------------------------------------------
(* get_sudoku_clauses, one loop iteration at a time *)

InitBuild ==
    /\ sudoku_clauses = <<>>
    /\ sudoku_solution = {}
    /\ pc = "get_base_clauses"
    /\ single_clauses = <<>>
    /\ outcome = "none"
    /\ input_grid = <<>>
    /\ sudoku_grid = <<>>
    /\ calls = 0
    /\ family_clauses = <<>>
    /\ row = 1 /\ column = 1 /\ digit = 0
    /\ cell_id = 0
    /\ wanted = 0

\* the next (row, column) of the nested loops over the cells
NextCell ==
    IF column < DIGITS
    THEN /\ column' = column + 1
         /\ row' = row
    ELSE /\ column' = 1
         /\ row' = row + 1

\* lines 72-76, one cell
BaseStep ==
    /\ pc = "get_base_clauses"
    /\ row <= DIGITS
    /\ family_clauses' = Append(family_clauses, base_clause(row, column))
    /\ NextCell
    /\ UNCHANGED <<sudoku_clauses, sudoku_solution, pc, single_clauses,
                   outcome, input_grid, sudoku_grid, calls, digit, cell_id,
                   wanted>>

\* lines 99-105, one cell
UniqueDigitStep ==
    /\ pc = "get_unique_digit_clauses"
    /\ row <= DIGITS
    /\ family_clauses' =
        family_clauses \o unique_digit_clauses_of_cell(row, column)
    /\ NextCell
    /\ UNCHANGED <<sudoku_clauses, sudoku_solution, pc, single_clauses,
                   outcome, input_grid, sudoku_grid, calls, digit, cell_id,
                   wanted>>

\* lines 159-162, one row
RowStep ==
    /\ pc = "get_rows_digits_unique_clauses"
    /\ row <= DIGITS
    /\ family_clauses' =
        family_clauses \o get_unique_subset_clause(row_subset(row))
    /\ row' = row + 1
    /\ UNCHANGED <<sudoku_clauses, sudoku_solution, pc, single_clauses,
                   outcome, input_grid, sudoku_grid, calls, column, digit,
                   cell_id, wanted>>

\* lines 176-179, one column (the loop variable is named row)
ColumnStep ==
    /\ pc = "get_column_digits_unique_clause"
    /\ row <= DIGITS
    /\ family_clauses' =
        family_clauses \o get_unique_subset_clause(column_subset(row))
    /\ row' = row + 1
    /\ UNCHANGED <<sudoku_clauses, sudoku_solution, pc, single_clauses,
                   outcome, input_grid, sudoku_grid, calls, column, digit,
                   cell_id, wanted>>

\* lines 194-198, one sub grid; row and column are the positions of the loop
\* variables in SUDOKU_BOARD_BOUNDARIES
SubGridStep ==
    /\ pc = "get_3x3_sub_grid_clauses"
    /\ row <= Len(SUDOKU_BOARD_BOUNDARIES)
    /\ family_clauses' =
        family_clauses \o get_unique_subset_clause(
            sub_grid_subset(SUDOKU_BOARD_BOUNDARIES[row],
                            SUDOKU_BOARD_BOUNDARIES[column]))
    /\ IF column < Len(SUDOKU_BOARD_BOUNDARIES)
       THEN /\ column' = column + 1
            /\ row' = row
       ELSE /\ column' = 1
            /\ row' = row + 1
    /\ UNCHANGED <<sudoku_clauses, sudoku_solution, pc, single_clauses,
                   outcome, input_grid, sudoku_grid, calls, digit, cell_id,
                   wanted>>

\* the family function returns and get_sudoku_clauses extends its list with
\* the result (lines 212-216), then calls the next one
FamilyReturn(this, last, next) ==
    /\ pc = this
    /\ row > last
    /\ sudoku_clauses' = sudoku_clauses \o family_clauses
    /\ family_clauses' = <<>>
    /\ row' = 1
    /\ column' = 1
    /\ pc' = next
    /\ UNCHANGED <<sudoku_solution, single_clauses, outcome, input_grid,
                   sudoku_grid, calls, digit, cell_id, wanted>>

NextBuild ==
    \/ BaseStep
    \/ FamilyReturn("get_base_clauses", DIGITS, "get_unique_digit_clauses")
    \/ UniqueDigitStep
    \/ FamilyReturn("get_unique_digit_clauses", DIGITS,
                    "get_rows_digits_unique_clauses")
    \/ RowStep
    \/ FamilyReturn("get_rows_digits_unique_clauses", DIGITS,
                    "get_column_digits_unique_clause")
    \/ ColumnStep
    \/ FamilyReturn("get_column_digits_unique_clause", DIGITS,
                    "get_3x3_sub_grid_clauses")
    \/ SubGridStep
    \/ FamilyReturn("get_3x3_sub_grid_clauses", Len(SUDOKU_BOARD_BOUNDARIES),
                    "built")

SpecBuild == InitBuild /\ [][NextBuild]_vars

----------------------------------------------------------------------------
(* get_cell_value on its own *)

InitIndex ==
    /\ sudoku_clauses = <<>>
    /\ sudoku_solution = {}
    /\ pc = "idle"
    /\ single_clauses = <<>>
    /\ outcome = "none"
    /\ input_grid = <<>>
    /\ sudoku_grid = <<>>
    /\ calls = 0
    /\ family_clauses = <<>>
    /\ row = 0 /\ column = 0 /\ digit = 0
    /\ cell_id = 0
    /\ wanted = 0

\* get_cell_value(r, c, d) is called and returns
Index(r, c, d) ==
    /\ pc = "idle"
    /\ row' = r
    /\ column' = c
    /\ digit' = d
    /\ cell_id' = get_cell_value(r, c, d)
    /\ pc' = "indexed"
    /\ UNCHANGED <<sudoku_clauses, sudoku_solution, single_clauses, outcome,
                   input_grid, sudoku_grid, calls, family_clauses, wanted>>

\* a variable w of the solver's model is looked for among the ids (line 265)
Ask(w) ==
    /\ pc = "idle"
    /\ wanted' = w
    /\ pc' = "asked"
    /\ UNCHANGED <<sudoku_clauses, sudoku_solution, single_clauses, outcome,
                   input_grid, sudoku_grid, calls, family_clauses, row,
                   column, digit, cell_id>>

NextIndex ==
    \/ \E r \in 1..DIGITS, c \in 1..DIGITS, d \in 1..DIGITS : Index(r, c, d)
    \/ \E w \in 1..NUM_VARIABLES : Ask(w)

SpecIndex == InitIndex /\ [][NextIndex]_vars

----------------------------------------------------------------------------
(* What the claims speak of *)

Cells == (1..9) \X (1..9)

\* the nine cells of box b (1..9): three rows by three columns
BoxCells(b) ==
    {<<3 * ((b - 1) \div 3) + i, 3 * ((b - 1) % 3) + j>> : i \in 1..3, j \in 1..3}

IsNineByNine(g) ==
    /\ DOMAIN g = 1..9
    /\ \A r \in 1..9 : DOMAIN g[r] = 1..9

\* every row, column and box of g is a permutation of 1..9
IsSolved(g) ==
    /\ IsNineByNine(g)
    /\ \A r \in 1..9 : {g[r][c] : c \in 1..9} = 1..9
    /\ \A c \in 1..9 : {g[r][c] : r \in 1..9} = 1..9
    /\ \A b \in 1..9 : {g[p[1]][p[2]] : p \in BoxCells(b)} = 1..9

InvalidCells(g) == {p \in Cells : g[p[1]][p[2]] \notin 0..9}

\* the digits of cell (r, c) whose id is a positive member of the solution
PositiveDigits(solution, r, c) ==
    {d \in 1..9 : get_cell_value(r, c, d) \in solution}

Smallest(S) == CHOOSE x \in S : \A y \in S : x <= y

\* the assignment that makes get_cell_value(r, c, d) true exactly when
\* g[r][c] = d
AssignmentOfGrid(g) ==
    [v \in 1..NUM_VARIABLES |->
        \E p \in Cells : get_cell_value(p[1], p[2], g[p[1]][p[2]]) = v]

Elements(seq) == {seq[i] : i \in DOMAIN seq}

\* the clauses of a list as sets of literals
ClauseSets(formula) == {Elements(formula[i]) : i \in DOMAIN formula}

NoRepeatedClause(formula) == Cardinality(ClauseSets(formula)) = Len(formula)

\* the loop of the running family function has ended
FamilyDone(name, last) == pc = name /\ row > last

----------------------------------------------------------------------------
(* The claims *)

\* C1: for every model of the structural clauses plus the unit clauses of
\* the input grid, the grid solve_sudoku returns has every entry in 1..9 and
\* every row, column and 3x3 box a permutation of 1..9.
C1_SolvedGridIsValid ==
    (pc = "returned" /\ outcome = "SAT") => IsSolved(sudoku_grid)

C1_Witness ==
    /\ pc = "returned"
    /\ outcome = "SAT"
    /\ input_grid = sudoku_problem
    /\ sudoku_grid = expected_solution

\* C2: when the solver reports that the formula has no model, solve_sudoku
\* surfaces an unsatisfiable outcome and never returns a 9x9 grid.
C2_UnsatNeverReturnsGrid ==
    (pc = "returned" /\ outcome = "UNSAT") => ~IsNineByNine(sudoku_grid)

\* C3: a grid with an entry outside 0..9 is rejected before any clause is
\* generated or added: no unit clause is emitted for that entry, the clause
\* list is not extended and the solver is never given the formula.
C3_InvalidDigitRejected ==
    (input_grid # <<>> /\ InvalidCells(input_grid) # {}) =>
        /\ \A p \in InvalidCells(input_grid) :
            <<get_cell_value(p[1], p[2], input_grid[p[1]][p[2]])>>
                \notin Elements(single_clauses)
        /\ sudoku_clauses = get_sudoku_clauses
        /\ pc \notin {"solve", "decode", "returned"}

\* C4: the structural clause list is reusable: when solve_sudoku returns the
\* list is unchanged (the 11,745 structural clauses), so every call gives
\* the solver the freshly built clauses plus the unit clauses of its own grid.
C4_ClauseListReusable ==
    /\ pc = "returned" => sudoku_clauses = get_sudoku_clauses
    /\ pc = "solve" =>
        sudoku_clauses = get_sudoku_clauses \o get_single_clauses(input_grid)

\* C5: get_cell_value is a bijection from the triples (row, column, digit)
\* in 1..9 onto 1..729: the id of a triple is in 1..729 and no other triple
\* has it, and every id in 1..729 is the id of some triple.
C5_CellValueBijection ==
    /\ pc = "indexed" =>
        /\ cell_id \in 1..729
        /\ \A r \in 1..9, c \in 1..9, d \in 1..9 :
            get_cell_value(r, c, d) = cell_id =>
                <<r, c, d>> = <<row, column, digit>>
    /\ pc = "asked" =>
        \E r \in 1..9, c \in 1..9, d \in 1..9 : get_cell_value(r, c, d) = wanted

C5_Witness ==
    /\ pc = "indexed"
    /\ <<row, column, digit>> = <<9, 9, 9>>
    /\ cell_id = 729

\* C6: the families have exactly these sizes: base 81, per-cell uniqueness
\* 2916, rows 2916, columns 2916, sub grids 2916, 11,745 in total, and each
\* get_unique_subset_clause call on 9 cells gives 324 clauses.
C6_ClauseCounts ==
    /\ FamilyDone("get_base_clauses", DIGITS) => Len(family_clauses) = 81
    /\ FamilyDone("get_unique_digit_clauses", DIGITS) =>
        Len(family_clauses) = 2916
    /\ pc = "get_rows_digits_unique_clauses" =>
        Len(family_clauses) = 324 * (row - 1)
    /\ FamilyDone("get_rows_digits_unique_clauses", DIGITS) =>
        Len(family_clauses) = 2916
    /\ pc = "get_column_digits_unique_clause" =>
        Len(family_clauses) = 324 * (row - 1)
    /\ FamilyDone("get_column_digits_unique_clause", DIGITS) =>
        Len(family_clauses) = 2916
    /\ pc = "get_3x3_sub_grid_clauses" =>
        Len(family_clauses) = 324 * (3 * (row - 1) + (column - 1))
    /\ FamilyDone("get_3x3_sub_grid_clauses", 3) => Len(family_clauses) = 2916
    /\ pc = "built" => Len(sudoku_clauses) = 11745

C6_Witness ==
    /\ pc = "built"
    /\ Len(sudoku_clauses) = 81 + 4 * 2916

\* C7 (as claimed): the list returned by get_sudoku_clauses contains no
\* clause twice: no two of its clauses have the same set of literals.
C7_NoClauseTwice == pc = "built" => NoRepeatedClause(sudoku_clauses)

\* C7 (amended): no clause occurs twice among the base, per-cell, row and
\* column families, nor twice within the sub grid family; 1,458 sub grid
\* clauses repeat a row or column clause, so that the returned list has
\* 10,287 distinct clauses.
C7_RepeatsOnlyInSubGrids ==
    /\ pc # "built" =>
        /\ NoRepeatedClause(sudoku_clauses)
        /\ NoRepeatedClause(family_clauses)
    /\ FamilyDone("get_3x3_sub_grid_clauses", 3) =>
        LET repeated == ClauseSets(family_clauses) \cap ClauseSets(sudoku_clauses)
        IN  /\ Cardinality(repeated) = 1458
            /\ repeated \subseteq
                ClauseSets(SubSeq(sudoku_clauses, 81 + 2916 + 1, Len(sudoku_clauses)))
    /\ pc = "built" => Cardinality(ClauseSets(sudoku_clauses)) = 10287

\* the row clause of cells (1,1), (1,2) for digit 1 is also a sub grid clause
C7_Witness ==
    /\ pc = "built"
    /\ sudoku_clauses[2998] = <<-1, -10>>
    /\ sudoku_clauses[8848] = <<-1, -10>>

\* C8: decoding a cell gives the smallest digit whose id is a positive
\* member of the model; when there is none, the failure is flagged to the
\* caller instead of a -1 being placed silently in the returned grid.
C8_DecodeFailureSurfaced ==
    pc = "returned" =>
        \A p \in Cells :
            LET digits == PositiveDigits(sudoku_solution, p[1], p[2])
            IN  /\ digits # {}
                /\ sudoku_grid[p[1]][p[2]] = Smallest(digits)

\* C9: the all-zero puzzle is satisfiable (no unit clause is emitted for it
\* and the formula has a model), and the assignment of any completed grid
\* whose rows, columns and boxes are permutations of 1..9 satisfies every
\* clause of the formula built for it.
C9_EncodingExcludesNoSudoku ==
    pc = "solve" =>
        /\ input_grid = ZeroGrid =>
            /\ single_clauses = <<>>
            /\ sudoku_clauses = get_sudoku_clauses
            /\ Models(sudoku_clauses) # {}
        /\ IsSolved(input_grid) =>
            Satisfies(AssignmentOfGrid(input_grid), sudoku_clauses)

C9_Witness ==
    /\ pc = "solve"
    /\ IsSolved(input_grid)
    /\ input_grid # expected_solution
    /\ Satisfies(AssignmentOfGrid(input_grid), get_sudoku_clauses)

\* C10: for a grid with entries in 0..9 and any model of its formula, the
\* returned grid has at every clue cell the clue's value, although every
\* cell of the grid is overwritten in place.
C10_CluesPreserved ==
    (pc = "returned" /\ outcome = "SAT" /\ InvalidCells(input_grid) = {}) =>
        \A p \in Cells :
            input_grid[p[1]][p[2]] # 0 =>
                sudoku_grid[p[1]][p[2]] = input_grid[p[1]][p[2]]

C10_Witness ==
    /\ pc = "returned"
    /\ outcome = "SAT"
    /\ input_grid = SetCell(ZeroGrid, 1, 2, 2)
    /\ sudoku_grid[1][2] = 2
    /\ sudoku_grid[1][1] # 0

\* the step-by-step build ends with the list the operator gives
BuiltIsOperator == pc = "built" => sudoku_clauses = get_sudoku_clauses
=============================================================================
